---------------------------- MODULE Spec2Model ----------------------------
(***************************************************************************)
(* Model of the katas of polRk/bsuir-rpi-3:                                *)
(*   - getPokerHandRank and PokerRank  (src/task/11-katas-2-tasks.js)      *)
(*   - wrapText                        (src/task/11-katas-2-tasks.js)      *)
(*   - getPermutations, getMostProfitFromStockQuotes, extractRanges,       *)
(*     mergeSortedSequences, getRegexForSSN      (src/unnamed/part_000)    *)
(*                                                                         *)
(* Card tokens are JavaScript strings: a rank followed by one suit glyph.  *)
(* The four suit glyphs (spade, heart, diamond, club: one UTF-16 code unit *)
(* each) are written here as the one-character strings "S", "H", "D", "C". *)
(* Arrays are sequences; a JavaScript index k is position k+1 here, except *)
(* in getPermutations, whose arrays are functions over 0..length-1.        *)
(***************************************************************************)
EXTENDS Integers, Sequences, FiniteSets, TLC

VARIABLES
  \* ---- one call of getPokerHandRank, run to completion ----
  cards,      \* the (rank, suit) pairs the caller serialised into `hand`
  hand0,      \* the caller's hand before it was re-ordered for the call
  hand,       \* the array passed to getPokerHandRank
  PokerRank,  \* the module-level PokerRank object
  pc,         \* "idle" before the call, "done" after it
  result,     \* the value returned
  outcome,    \* how the call ended: "none", "returned", or an error name
  \* ---- interleaved invocations of getPokerHandRank ----
  args,       \* invocation -> its hand argument
  cpc,        \* invocation -> its position in the function body
  frames,     \* frame -> the locals sH, rankArray, suitArray, countSuites, countRanks
  results,    \* invocation -> the value it returned
  interleaved,\* whether a step was taken while another invocation was under way
  \* ---- one run of the generator getPermutations ----
  input,      \* the string passed in
  arr,        \* input.split(''), swapped in place
  c,          \* the counters of Heap's algorithm
  i,          \* the loop variable
  yielded,    \* the strings yielded so far, in order
  gpc,        \* "start", "loop" or "done"
  \* ---- one call of getMostProfitFromStockQuotes ----
  quotes0,    \* the quotes in date order, as the caller wrote them
  quotes,     \* the array passed in
  profit,     \* the value returned
  spc,        \* "idle" before the call, "done" after it
  \* ---- one run of the generator mergeSortedSequences ----
  source1,    \* the values the first source yields, in order
  source2,    \* the values the second source yields, in order
  s1,         \* how many values have been pulled from the first source
  s2,         \* how many values have been pulled from the second source
  pending,    \* the values of this iteration still to be yielded
  merged,     \* the values yielded so far, in order
  mpc,        \* "start", "pull", "yield" or "done"
  \* ---- one run of the generator wrapText ----
  text,       \* the string passed in
  columns,    \* the column number passed in
  phrases,    \* text.split(' ').reverse(), popped from its end
  phrase,     \* the line being built
  lines,      \* the lines yielded so far, in order
  wpc,        \* "start", "loop" or "done"
  \* ---- one call of extractRanges ----
  nums,       \* the array passed in
  ranges,     \* the string returned
  rpc,        \* "idle" before the call, "done" after it
  \* ---- one test of a string against getRegexForSSN() ----
  str,        \* the string tested
  matched,    \* the value of getRegexForSSN().test(str)
  tpc         \* "idle" before the test, "done" after it

pokerVars == <<cards, hand0, hand, PokerRank, pc, result, outcome>>
concVars  == <<args, cpc, frames, results, interleaved>>
permVars  == <<input, arr, c, i, yielded, gpc>>
stockVars == <<quotes0, quotes, profit, spc>>
mergeVars == <<source1, source2, s1, s2, pending, merged, mpc>>
wrapVars  == <<text, columns, phrases, phrase, lines, wpc>>
rangeVars == <<nums, ranges, rpc>>
ssnVars   == <<str, matched, tpc>>
kataVars  == <<stockVars, mergeVars, wrapVars, rangeVars, ssnVars>>
vars      == <<pokerVars, concVars, permVars, kataVars>>

---------------------------------------------------------------------------
(* Bounds of the model *)

\* how many ranks of DeckRankOrder the exhaustively dealt deck holds
NumDeckRanks == 5
\* the longest hand of the wrong size that is passed in
MaxHandLen == 6
\* how many invocations of getPokerHandRank are interleaved
NumCallers == 2
\* the longest input string of getPermutations
MaxInputLen == 4
\* the longest array of quotes, and the highest quote
MaxQuotes == 4
MaxQuote == 3
\* the longest source of mergeSortedSequences, and its highest value
MaxSourceLen == 3
MaxSourceValue == 2
\* the longest text of wrapText, and the highest column number
MaxTextLen == 5
MaxColumns == 4
\* the integers of the lists of extractRanges: -MaxBelowZero..MaxAboveZero
MaxBelowZero == 3
MaxAboveZero == 4
\* how many one-character edits are applied to the strings tested against
\* the SSN regular expression
MaxEdits == 1

---------------------------------------------------------------------------
(* JavaScript built-ins used by the code *)

Min(a, b) == IF a < b THEN a ELSE b
Max(a, b) == IF a > b THEN a ELSE b

\* String.prototype.slice / Array.prototype.slice (start, end), 0-based,
\* negative indices counted from the end, result empty when end <= start
RelIndex(k, len) == IF k < 0 THEN Max(len + k, 0) ELSE Min(k, len)
slice(s, start, end) ==
  LET from == RelIndex(start, Len(s))
      to   == RelIndex(end, Len(s))
  IN  SubSeq(s, from + 1, to)

\* Array.prototype.join('') of an array of strings
RECURSIVE join(_)
join(a) == IF Len(a) = 0 THEN "" ELSE a[1] \o join(Tail(a))

\* Array.prototype.indexOf: 0-based position of the first strict match, or -1
indexOf(a, x) ==
  IF \E k \in 1..Len(a) : a[k] = x
  THEN (CHOOSE k \in 1..Len(a) : a[k] = x /\ \A m \in 1..(k-1) : a[m] # x) - 1
  ELSE -1

\* the value of a[0] of an empty array
undefined == "undefined"

\* mutant of countReduce: every key set to 1, never incremented
countReduceNoIncrement(a, prev) ==
  [k \in (DOMAIN prev) \cup {a[j] : j \in 1..Len(a)} |-> 1]

\* arr.reduce((p, cur) => ({...p, [cur]: (p[cur] || 0) + 1}), {}):
\* an object, modelled as a function from its keys to their counts
RECURSIVE countReduce(_, _)
countReduce(a, prev) ==
  IF Len(a) = 0 THEN prev
  ELSE LET cur == a[1]
           old == IF cur \in DOMAIN prev THEN prev[cur] ELSE 0
       IN  countReduce(Tail(a),
                       [k \in (DOMAIN prev) \cup {cur} |->
                          IF k = cur THEN old + 1 ELSE prev[k]])

EmptyObject == [k \in {} |-> 0]

---------------------------------------------------------------------------
(* getPokerHandRank *)

PokerRankInit ==
  [StraightFlush |-> 8, FourOfKind |-> 7, FullHouse |-> 6, Flush |-> 5,
   Straight |-> 4, ThreeOfKind |-> 3, TwoPairs |-> 2, OnePair |-> 1,
   HighCard |-> 0]

ranks == <<"2", "3", "4", "5", "6", "7", "8", "9", "10", "J", "Q", "K", "A">>

getRankFirstChar(card) == slice(card, 0, 1)
getRank(card) == slice(card, 0, -1)
getSuit(card) == slice(card, -1, Len(card))

\* the inner loop over hand for one rank
RECURSIVE matching(_, _)
matching(h, r) ==
  IF Len(h) = 0 THEN <<>>
  ELSE (IF r = getRank(h[1]) THEN <<h[1]>> ELSE <<>>) \o matching(Tail(h), r)

\* the outer loop over ranks, from position k of ranks on
RECURSIVE sortedFrom(_, _)
sortedFrom(h, k) ==
  IF k > Len(ranks) THEN <<>> ELSE matching(h, ranks[k]) \o sortedFrom(h, k + 1)

\* mutants of sortedHand: no sorting at all; unmatched cards kept at the end
sortedHandUnsorted(h) == h
sortedHandKeepUnmatched(h) ==
  sortedFrom(h, 1) \o SelectSeq(h, LAMBDA t : \A k \in 1..Len(ranks) : ranks[k] # getRank(t))

sortedHand(h) == sortedFrom(h, 1)

\* mutant: the sort done in place on the argument
handSortedInPlace(h) == sortedHand(h)

\* the argument array after the call: it is only read (hand.length, hand[j])
handAfterCall(h) == h

rankArrayOf(sH) == [k \in 1..Len(sH) |-> getRank(sH[k])]
suitArrayOf(sH) == [k \in 1..Len(sH) |-> getSuit(sH[k])]

isFlush(countSuites) == \E key \in DOMAIN countSuites : countSuites[key] = 5

\* mutants of isStraight: without the wheel; without comparing whole arrays
isStraightNoWheel(rankArray) ==
  LET index   == indexOf(ranks, IF Len(rankArray) = 0 THEN undefined ELSE rankArray[1])
      ref     == join(slice(ranks, index, index + 5))
      section == join(rankArray)
  IN  section = "AKQJ10" \/ section = ref
isStraightFiveOnly(rankArray) ==
  LET index   == indexOf(ranks, IF Len(rankArray) = 0 THEN undefined ELSE rankArray[1])
      ref     == join(slice(ranks, index, index + 5))
      section == join(rankArray)
  IN  Len(rankArray) = 5 /\ (section = "AKQJ10" \/ section = "2345A" \/ section = ref)

isStraight(rankArray) ==
  LET index   == indexOf(ranks, IF Len(rankArray) = 0 THEN undefined ELSE rankArray[1])
      ref     == join(slice(ranks, index, index + 5))
      section == join(rankArray)
  IN  section = "AKQJ10" \/ section = "2345A" \/ section = ref

isFourOfKind(countRanks)  == Cardinality({key \in DOMAIN countRanks : countRanks[key] = 4})
isThreeOfKind(countRanks) == Cardinality({key \in DOMAIN countRanks : countRanks[key] = 3})
isPairs(countRanks)       == Cardinality({key \in DOMAIN countRanks : countRanks[key] = 2})

\* mutants of the chain of returns
decideThreeBeforeFullHouse(rankArray, countSuites, countRanks, PR) ==
  IF isStraight(rankArray) /\ isFlush(countSuites) THEN PR.StraightFlush
  ELSE IF isFourOfKind(countRanks) # 0 THEN PR.FourOfKind
  ELSE IF isThreeOfKind(countRanks) # 0 THEN PR.ThreeOfKind
  ELSE IF isThreeOfKind(countRanks) # 0 /\ isPairs(countRanks) = 1 THEN PR.FullHouse
  ELSE IF isFlush(countSuites) THEN PR.Flush
  ELSE IF isStraight(rankArray) THEN PR.Straight
  ELSE IF isPairs(countRanks) = 2 THEN PR.TwoPairs
  ELSE IF isPairs(countRanks) = 1 THEN PR.OnePair
  ELSE PR.HighCard
decideOnePairBeforeTwoPairs(rankArray, countSuites, countRanks, PR) ==
  IF isStraight(rankArray) /\ isFlush(countSuites) THEN PR.StraightFlush
  ELSE IF isFourOfKind(countRanks) # 0 THEN PR.FourOfKind
  ELSE IF isThreeOfKind(countRanks) # 0 /\ isPairs(countRanks) = 1 THEN PR.FullHouse
  ELSE IF isFlush(countSuites) THEN PR.Flush
  ELSE IF isStraight(rankArray) THEN PR.Straight
  ELSE IF isThreeOfKind(countRanks) # 0 THEN PR.ThreeOfKind
  ELSE IF isPairs(countRanks) >= 1 THEN PR.OnePair
  ELSE IF isPairs(countRanks) = 2 THEN PR.TwoPairs
  ELSE PR.HighCard

\* the chain of if-returns, first match wins
decide(rankArray, countSuites, countRanks, PR) ==
  IF isStraight(rankArray) /\ isFlush(countSuites) THEN PR.StraightFlush
  ELSE IF isFourOfKind(countRanks) # 0 THEN PR.FourOfKind
  ELSE IF isThreeOfKind(countRanks) # 0 /\ isPairs(countRanks) = 1 THEN PR.FullHouse
  ELSE IF isFlush(countSuites) THEN PR.Flush
  ELSE IF isStraight(rankArray) THEN PR.Straight
  ELSE IF isThreeOfKind(countRanks) # 0 THEN PR.ThreeOfKind
  ELSE IF isPairs(countRanks) = 2 THEN PR.TwoPairs
  ELSE IF isPairs(countRanks) = 1 THEN PR.OnePair
  ELSE PR.HighCard

\* the rank-multiplicity map the call builds for hand h
countRanksOf(h) == countReduce(rankArrayOf(sortedHand(h)), EmptyObject)

getPokerHandRank(h, PR) ==
  LET sH          == sortedHand(h)
      rankArray   == rankArrayOf(sH)
      suitArray   == suitArrayOf(sH)
      countSuites == countReduce(suitArray, EmptyObject)
      countRanks  == countReduce(rankArray, EmptyObject)
  IN  decide(rankArray, countSuites, countRanks, PR)

---------------------------------------------------------------------------
(* The hands the caller passes in *)

suits == <<"S", "H", "D", "C">>

Cd(r, s) == [rank |-> r, suit |-> s]

\* a card written as the caller writes it: rank, then suit glyph
Token(card) == card.rank \o card.suit
Tokens(cs) == [k \in 1..Len(cs) |-> Token(cs[k])]

\* the hands of the examples in the comment above PokerRank
ExampleHands ==
  << <<Cd("4","H"), Cd("5","H"), Cd("6","H"), Cd("7","H"), Cd("8","H")>>,
     <<Cd("A","S"), Cd("4","S"), Cd("3","S"), Cd("5","S"), Cd("2","S")>>,
     <<Cd("4","C"), Cd("4","D"), Cd("4","H"), Cd("4","S"), Cd("10","H")>>,
     <<Cd("4","C"), Cd("4","D"), Cd("5","D"), Cd("5","S"), Cd("5","H")>>,
     <<Cd("4","C"), Cd("5","C"), Cd("6","C"), Cd("7","C"), Cd("Q","C")>>,
     <<Cd("2","S"), Cd("3","H"), Cd("4","H"), Cd("5","H"), Cd("6","H")>>,
     <<Cd("2","H"), Cd("4","D"), Cd("5","H"), Cd("A","D"), Cd("3","S")>>,
     <<Cd("2","H"), Cd("2","S"), Cd("2","D"), Cd("7","H"), Cd("A","H")>>,
     <<Cd("2","H"), Cd("4","D"), Cd("4","H"), Cd("A","D"), Cd("A","S")>>,
     <<Cd("3","H"), Cd("4","H"), Cd("10","H"), Cd("3","D"), Cd("A","S")>>,
     <<Cd("A","H"), Cd("K","H"), Cd("Q","H"), Cd("2","D"), Cd("3","S")>> >>

\* the deck that is dealt exhaustively: the first NumDeckRanks ranks of
\* DeckRankOrder in each of the four suits, suit by suit
DeckRankOrder == <<"A", "2", "3", "4", "5", "6", "10", "K", "Q", "J", "7", "8", "9">>
DeckSize == NumDeckRanks * Len(suits)
DeckCard(n) == Cd(DeckRankOrder[((n - 1) % NumDeckRanks) + 1],
                  suits[((n - 1) \div NumDeckRanks) + 1])

\* rank substrings that are none of the 13 ranks
BadRanks == {"1", "", "11", "T"}

\* every 5-card hand of the deck, in deck order (which is not rank order)
DealtFromDeck ==
  \E n1 \in 1..DeckSize :
    \E n2 \in (n1 + 1)..DeckSize :
      \E n3 \in (n2 + 1)..DeckSize :
        \E n4 \in (n3 + 1)..DeckSize :
          \E n5 \in (n4 + 1)..DeckSize :
            /\ cards = <<DeckCard(n1), DeckCard(n2), DeckCard(n3), DeckCard(n4), DeckCard(n5)>>
            /\ hand0 = Tokens(cards)

\* every re-ordering of every example hand
ExampleShuffled ==
  \E e \in 1..Len(ExampleHands) :
    \E p \in Permutations(1..5) :
      /\ cards = [k \in 1..5 |-> ExampleHands[e][p[k]]]
      /\ hand0 = Tokens(ExampleHands[e])

\* an example hand with one or two rank substrings replaced by a bad one
MalformedHand ==
  \E e \in 1..Len(ExampleHands) :
    \E k1 \in 1..5, k2 \in 1..5 :
      \E b1 \in BadRanks, b2 \in BadRanks :
        /\ cards = [ExampleHands[e] EXCEPT ![k1].rank = b1, ![k2].rank = b2]
        /\ hand0 = Tokens(cards)

\* a hand of 0..MaxHandLen cards other than 5
WrongSizeHand ==
  \E e1 \in 1..Len(ExampleHands), e2 \in 1..Len(ExampleHands) :
    \E n \in (0..MaxHandLen) \ {5} :
      /\ cards = SubSeq(ExampleHands[e1] \o ExampleHands[e2] \o ExampleHands[e1], 1, n)
      /\ hand0 = Tokens(cards)

PokerInit ==
  /\ \/ DealtFromDeck
     \/ ExampleShuffled
     \/ MalformedHand
     \/ WrongSizeHand
  /\ hand = Tokens(cards)
  /\ PokerRank = PokerRankInit
  /\ pc = "idle"
  /\ result = -1
  /\ outcome = "none"

\* no call of getPokerHandRank in this behaviour
PokerIdle ==
  /\ cards = <<>> /\ hand0 = <<>> /\ hand = <<>>
  /\ PokerRank = PokerRankInit
  /\ pc = "done" /\ result = -1 /\ outcome = "none"

\* one call of getPokerHandRank(hand), from entry to its return statement
Call ==
  /\ pc = "idle"
  /\ result' = getPokerHandRank(hand, PokerRank)
  /\ outcome' = "returned"
  /\ hand' = handAfterCall(hand)
  /\ pc' = "done"
  /\ UNCHANGED <<cards, hand0, PokerRank, concVars, permVars, kataVars>>

---------------------------------------------------------------------------
(* Invocations of getPokerHandRank whose steps interleave *)

Callers == 1..NumCallers

\* mutant: the locals declared once, outside the function
frameShared(p) == 1

\* the activation that holds the locals of invocation p: the const and let
\* declarations are inside the function body, one set per invocation
frameOf(p) == p

EmptyFrame ==
  [sH |-> <<>>, rankArray |-> <<>>, suitArray |-> <<>>,
   countSuites |-> EmptyObject, countRanks |-> EmptyObject]

\* the hands the interleaved invocations are called with: the wheel in one
\* suit, the full house, the wheel in mixed suits, the pair with a 10 and
\* the high-card hand of the examples
ConcHands == {Tokens(ExampleHands[e]) : e \in {2, 4, 7, 10, 11}}

ConcInit ==
  /\ args \in [Callers -> ConcHands]
  /\ cpc = [p \in Callers |-> "entry"]
  /\ frames = [f \in Callers |-> EmptyFrame]
  /\ results = [p \in Callers |-> -1]
  /\ interleaved = FALSE

ConcIdle ==
  /\ args = <<>> /\ cpc = <<>> /\ frames = <<>> /\ results = <<>>
  /\ interleaved = FALSE

UnderWay(q) == cpc[q] \notin {"entry", "done"}

\* the bookkeeping of every step of invocation p
Step(p, from, to) ==
  /\ cpc[p] = from
  /\ cpc' = [cpc EXCEPT ![p] = to]
  /\ interleaved' = (interleaved \/ \E q \in Callers \ {p} : UnderWay(q))
  /\ UNCHANGED <<args, pokerVars, permVars, kataVars>>

\* const rankArray = [], const suitArray = []
Enter(p) ==
  /\ Step(p, "entry", "sort")
  /\ frames' = [frames EXCEPT ![frameOf(p)].rankArray = <<>>,
                              ![frameOf(p)].suitArray = <<>>]
  /\ UNCHANGED results

\* const sortedHand = (() => { ... })()
Sort(p) ==
  /\ Step(p, "sort", "split")
  /\ frames' = [frames EXCEPT ![frameOf(p)].sH = sortedHand(args[p])]
  /\ UNCHANGED results

\* for (const card of sortedHand) { rankArray.push(..); suitArray.push(..) }
Split(p) ==
  /\ Step(p, "split", "count")
  /\ LET f == frames[frameOf(p)]
     IN  frames' = [frames EXCEPT
                      ![frameOf(p)].rankArray = f.rankArray \o rankArrayOf(f.sH),
                      ![frameOf(p)].suitArray = f.suitArray \o suitArrayOf(f.sH)]
  /\ UNCHANGED results

\* const countSuites = suitArray.reduce(..), const countRanks = rankArray.reduce(..)
Count(p) ==
  /\ Step(p, "count", "decide")
  /\ LET f == frames[frameOf(p)]
     IN  frames' = [frames EXCEPT
                      ![frameOf(p)].countSuites = countReduce(f.suitArray, EmptyObject),
                      ![frameOf(p)].countRanks = countReduce(f.rankArray, EmptyObject)]
  /\ UNCHANGED results

\* the chain of if-returns
Decide(p) ==
  /\ Step(p, "decide", "done")
  /\ LET f == frames[frameOf(p)]
     IN  results' = [results EXCEPT
                       ![p] = decide(f.rankArray, f.countSuites, f.countRanks, PokerRank)]
  /\ UNCHANGED frames

ConcNext ==
  \E p \in Callers : Enter(p) \/ Sort(p) \/ Split(p) \/ Count(p) \/ Decide(p)

---------------------------------------------------------------------------
(* getPermutations: Heap's algorithm as a generator *)

Letters == <<"a", "b", "c", "d", "e", "f", "g", "h">>
InputChars == {Letters[k] : k \in 1..MaxInputLen}

\* String.prototype.split(''): the characters, as an array indexed from 0
split(s) == [k \in 0..(Len(s) - 1) |-> SubSeq(s, k + 1, k + 1)]

\* Array.prototype.join('') of an array indexed from 0
join0(a) == join([k \in 1..Cardinality(DOMAIN a) |-> a[k - 1]])

\* mutant: always swap with position 0
swapIndexAlwaysZero(ii, ci) == 0

\* k = i % 2 && c[i]
swapIndex(ii, ci) == IF ii % 2 # 0 THEN ci ELSE 0

length == Len(input)

PermInit ==
  /\ \E n \in 0..MaxInputLen :
       \E s \in [1..n -> InputChars] :
         /\ \A j, k \in 1..n : j # k => s[j] # s[k]
         /\ input = join(s)
  /\ arr = <<>> /\ c = <<>> /\ i = 0 /\ yielded = <<>>
  /\ gpc = "start"

PermIdle ==
  /\ input = "" /\ arr = <<>> /\ c = <<>> /\ i = 0 /\ yielded = <<>> /\ gpc = "done"

\* up to the first yield: arr, length, c, i = 1, yield input
GenStart ==
  /\ gpc = "start"
  /\ arr' = split(input)
  /\ c' = [k \in 0..(length - 1) |-> 0]
  /\ i' = 1
  /\ yielded' = <<input>>
  /\ gpc' = "loop"
  /\ UNCHANGED <<input, pokerVars, concVars, kataVars>>

\* an iteration with c[i] < i: swap, ++c[i], i = 1, yield arr.join('')
GenSwap ==
  /\ gpc = "loop" /\ i < length /\ c[i] < i
  /\ LET k == swapIndex(i, c[i])
     IN  arr' = [arr EXCEPT ![i] = arr[k], ![k] = arr[i]]
  /\ c' = [c EXCEPT ![i] = c[i] + 1]
  /\ i' = 1
  /\ yielded' = Append(yielded, join0(arr'))
  /\ UNCHANGED <<input, gpc, pokerVars, concVars, kataVars>>

\* an iteration with c[i] >= i: c[i] = 0, ++i
GenAdvance ==
  /\ gpc = "loop" /\ i < length /\ ~(c[i] < i)
  /\ c' = [c EXCEPT ![i] = 0]
  /\ i' = i + 1
  /\ UNCHANGED <<input, arr, yielded, gpc, pokerVars, concVars, kataVars>>

\* the loop condition fails: return
GenReturn ==
  /\ gpc = "loop" /\ ~(i < length)
  /\ gpc' = "done"
  /\ UNCHANGED <<input, arr, c, i, yielded, pokerVars, concVars, kataVars>>

PermNext == GenStart \/ GenSwap \/ GenAdvance \/ GenReturn

---------------------------------------------------------------------------
(* getMostProfitFromStockQuotes *)

\* mutant: the quotes walked in date order
reverseNot(q) == q

\* Array.prototype.reverse: the array, reversed in place
reverse(q) == [k \in 1..Len(q) |-> q[Len(q) + 1 - k]]

\* the for-of loop over reverse, from position k on
RECURSIVE profitLoop(_, _, _, _)
profitLoop(rev, k, min, prof) ==
  IF k > Len(rev) THEN prof
  ELSE LET quote == rev[k]
           min2  == IF min <= quote THEN quote ELSE min
       IN  profitLoop(rev, k + 1, min2, prof + (min2 - quote))

getMostProfitFromStockQuotes(q) == profitLoop(reverse(q), 1, 0, 0)

StockInit ==
  /\ \E n \in 0..MaxQuotes : quotes0 \in [1..n -> 0..MaxQuote]
  /\ quotes = quotes0
  /\ profit = -1
  /\ spc = "idle"

StockIdle ==
  /\ quotes0 = <<>> /\ quotes = <<>> /\ profit = -1 /\ spc = "done"

\* one call of getMostProfitFromStockQuotes(quotes)
StockCall ==
  /\ spc = "idle"
  /\ profit' = getMostProfitFromStockQuotes(quotes)
  /\ quotes' = reverse(quotes)
  /\ spc' = "done"
  /\ UNCHANGED <<quotes0, pokerVars, concVars, permVars,
                 mergeVars, wrapVars, rangeVars, ssnVars>>

---------------------------------------------------------------------------
(* mergeSortedSequences *)

\* the finite non-decreasing sequences over -1..MaxSourceValue
SortedSources ==
  UNION {{q \in [1..n -> (-1)..MaxSourceValue] :
            \A k \in 1..(n - 1) : q[k] <= q[k + 1]} : n \in 0..MaxSourceLen}

MergeInit ==
  /\ source1 \in SortedSources
  /\ source2 \in SortedSources
  /\ s1 = 0 /\ s2 = 0
  /\ pending = <<>> /\ merged = <<>>
  /\ mpc = "start"

MergeIdle ==
  /\ source1 = <<>> /\ source2 = <<>> /\ s1 = 0 /\ s2 = 0
  /\ pending = <<>> /\ merged = <<>> /\ mpc = "done"

\* iterator.next(): done once every value has been pulled
nextDone(src, pos) == pos >= Len(src)
nextValue(src, pos) == src[pos + 1]
nextPos(src, pos) == IF nextDone(src, pos) THEN pos ELSE pos + 1

mergeRest == <<pokerVars, concVars, permVars, stockVars, wrapVars, rangeVars, ssnVars>>

\* const s1 = source1(), const s2 = source2()
MergeStart ==
  /\ mpc = "start"
  /\ mpc' = "pull"
  /\ UNCHANGED <<source1, source2, s1, s2, pending, merged, mergeRest>>

\* an iteration in which both sources give a value: the lower of the two
\* is yielded first, the other is yielded at the next resumption
MergeBoth ==
  /\ mpc = "pull"
  /\ ~nextDone(source1, s1) /\ ~nextDone(source2, s2)
  /\ LET s1v == nextValue(source1, s1)
         s2v == nextValue(source2, s2)
     IN  IF s1v <= s2v
         THEN merged' = Append(merged, s1v) /\ pending' = <<s2v>>
         ELSE merged' = Append(merged, s2v) /\ pending' = <<s1v>>
  /\ s1' = nextPos(source1, s1)
  /\ s2' = nextPos(source2, s2)
  /\ mpc' = "yield"
  /\ UNCHANGED <<source1, source2, mergeRest>>

\* the second yield of such an iteration
MergeSecond ==
  /\ mpc = "yield"
  /\ merged' = Append(merged, pending[1])
  /\ pending' = <<>>
  /\ mpc' = "pull"
  /\ UNCHANGED <<source1, source2, s1, s2, mergeRest>>

\* else if (!s1v.done) yield s1v.value
MergeOnlyFirst ==
  /\ mpc = "pull"
  /\ ~nextDone(source1, s1) /\ nextDone(source2, s2)
  /\ merged' = Append(merged, nextValue(source1, s1))
  /\ s1' = nextPos(source1, s1)
  /\ s2' = nextPos(source2, s2)
  /\ UNCHANGED <<source1, source2, pending, mpc, mergeRest>>

\* else if (!s2v.done) yield s2v.value
MergeOnlySecond ==
  /\ mpc = "pull"
  /\ nextDone(source1, s1) /\ ~nextDone(source2, s2)
  /\ merged' = Append(merged, nextValue(source2, s2))
  /\ s1' = nextPos(source1, s1)
  /\ s2' = nextPos(source2, s2)
  /\ UNCHANGED <<source1, source2, pending, mpc, mergeRest>>

\* else break
MergeBreak ==
  /\ mpc = "pull"
  /\ nextDone(source1, s1) /\ nextDone(source2, s2)
  /\ mpc' = "done"
  /\ UNCHANGED <<source1, source2, s1, s2, pending, merged, mergeRest>>

MergeNext ==
  \/ MergeStart \/ MergeBoth \/ MergeSecond
  \/ MergeOnlyFirst \/ MergeOnlySecond \/ MergeBreak

---------------------------------------------------------------------------
(* wrapText *)

WrapChars == {"a", "b", " "}

\* 0-based position of the first space of s, or -1
firstSpace(s) ==
  IF \E k \in 1..Len(s) : SubSeq(s, k, k) = " "
  THEN (CHOOSE k \in 1..Len(s) :
          /\ SubSeq(s, k, k) = " "
          /\ \A m \in 1..(k - 1) : SubSeq(s, m, m) # " ") - 1
  ELSE -1

\* String.prototype.split(' '): the pieces between the spaces, empty
\* pieces included; a string without a space is its only piece
RECURSIVE splitSpace(_)
splitSpace(s) ==
  LET at == firstSpace(s)
  IN  IF at = -1 THEN <<s>>
      ELSE <<SubSeq(s, 1, at)>> \o splitSpace(SubSeq(s, at + 2, Len(s)))

\* [phrase, ph].join(' ')
joinSpace(a, b) == a \o " " \o b

\* mutant: the separating space not counted
fitsWithoutSpace(a, b, cols) == Len(a) + Len(b) <= cols

\* [phrase, ph].join(' ').length <= columns
fits(a, b, cols) == Len(joinSpace(a, b)) <= cols

\* Array.prototype.pop: the last element, and the array without it
popValue(a) == a[Len(a)]
popRest(a) == SubSeq(a, 1, Len(a) - 1)

WrapInit ==
  /\ \E n \in 0..MaxTextLen : \E q \in [1..n -> WrapChars] : text = join(q)
  /\ columns \in 1..MaxColumns
  /\ phrases = <<>> /\ phrase = "" /\ lines = <<>>
  /\ wpc = "start"

WrapIdle ==
  /\ text = "" /\ columns = 0 /\ phrases = <<>> /\ phrase = ""
  /\ lines = <<>> /\ wpc = "done"

wrapRest == <<pokerVars, concVars, permVars, stockVars, mergeVars, rangeVars, ssnVars>>

\* const phrases = text.split(' ').reverse(); let phrase = phrases.pop()
WrapStart ==
  /\ wpc = "start"
  /\ LET all == reverse(splitSpace(text))
     IN  phrase' = popValue(all) /\ phrases' = popRest(all)
  /\ wpc' = "loop"
  /\ UNCHANGED <<text, columns, lines, wrapRest>>

\* an iteration in which the next word still fits on the line
WrapJoin ==
  /\ wpc = "loop" /\ Len(phrases) # 0
  /\ LET ph == popValue(phrases)
     IN  /\ fits(phrase, ph, columns)
         /\ phrase' = joinSpace(phrase, ph)
  /\ phrases' = popRest(phrases)
  /\ UNCHANGED <<text, columns, lines, wpc, wrapRest>>

\* an iteration in which it does not: yield phrase; phrase = ph
WrapBreak ==
  /\ wpc = "loop" /\ Len(phrases) # 0
  /\ LET ph == popValue(phrases)
     IN  /\ ~fits(phrase, ph, columns)
         /\ lines' = Append(lines, phrase)
         /\ phrase' = ph
  /\ phrases' = popRest(phrases)
  /\ UNCHANGED <<text, columns, wpc, wrapRest>>

\* after the loop: yield phrase
WrapLast ==
  /\ wpc = "loop" /\ Len(phrases) = 0
  /\ lines' = Append(lines, phrase)
  /\ wpc' = "done"
  /\ UNCHANGED <<text, columns, phrases, phrase, wrapRest>>

WrapNext == WrapStart \/ WrapJoin \/ WrapBreak \/ WrapLast

---------------------------------------------------------------------------
(* extractRanges *)

\* Math.abs
abs(n) == IF n < 0 THEN -n ELSE n

\* Number.prototype.toString of an integer, as template literals and join
\* apply it
DigitChars == <<"0", "1", "2", "3", "4", "5", "6", "7", "8", "9">>
RECURSIVE natToString(_)
natToString(n) ==
  IF n < 10 THEN DigitChars[n + 1]
  ELSE natToString(n \div 10) \o DigitChars[(n % 10) + 1]
toString(n) == IF n < 0 THEN "-" \o natToString(-n) ELSE natToString(n)

\* Array.prototype.join(sep) of an array of strings
RECURSIVE joinWith(_, _)
joinWith(a, sep) ==
  IF Len(a) = 0 THEN ""
  ELSE IF Len(a) = 1 THEN a[1]
  ELSE a[1] \o sep \o joinWith(Tail(a), sep)

\* the reduce callback applied from position k on: p is the array of
\* groups, last the closure variable (NaN until the first element)
RECURSIVE groupLoop(_, _, _, _, _)
groupLoop(ns, k, p, lastIsNaN, last) ==
  IF k > Len(ns) THEN p
  ELSE LET cur == ns[k]
           p2  == IF ~lastIsNaN /\ abs(cur) - last = 1
                  THEN [p EXCEPT ![Len(p)] = Append(p[Len(p)], cur)]
                  ELSE Append(p, <<cur>>)
       IN  groupLoop(ns, k + 1, p2, FALSE, abs(cur))

\* the map callback: `${g[0]}-${g.pop()}` for more than two values,
\* else g.join(',')
groupString(g) ==
  IF Len(g) > 2 THEN toString(g[1]) \o "-" \o toString(g[Len(g)])
  ELSE joinWith([k \in 1..Len(g) |-> toString(g[k])], ",")

extractRanges(ns) ==
  LET groups == groupLoop(ns, 1, <<>>, TRUE, 0)
  IN  joinWith([k \in 1..Len(groups) |-> groupString(groups[k])], ",")

\* the elements of a set of integers in increasing order
RECURSIVE Ordered(_)
Ordered(S) ==
  IF S = {} THEN <<>>
  ELSE LET lo == CHOOSE x \in S : \A y \in S : x <= y
       IN  <<lo>> \o Ordered(S \ {lo})

RangesInit ==
  /\ \E S \in SUBSET ((-MaxBelowZero)..MaxAboveZero) : nums = Ordered(S)
  /\ ranges = ""
  /\ rpc = "idle"

RangesIdle ==
  /\ nums = <<>> /\ ranges = "" /\ rpc = "done"

\* one call of extractRanges(nums)
RangesCall ==
  /\ rpc = "idle"
  /\ ranges' = extractRanges(nums)
  /\ rpc' = "done"
  /\ UNCHANGED <<nums, pokerVars, concVars, permVars,
                 stockVars, mergeVars, wrapVars, ssnVars>>

---------------------------------------------------------------------------
(* getRegexForSSN: /^(?!000)\d{3}-(?!00)\d{2}-(?!0{4})\d{4}$/ *)
(* A position is the number of characters already consumed.   *)

\* \d
isDigit(ch) == ch \in {DigitChars[k] : k \in 1..Len(DigitChars)}

\* \d{n} at position pos
digitsAt(s, pos, n) ==
  /\ pos + n <= Len(s)
  /\ \A k \in (pos + 1)..(pos + n) : isDigit(SubSeq(s, k, k))

\* the literal lit at position pos
literalAt(s, pos, lit) ==
  /\ pos + Len(lit) <= Len(s)
  /\ SubSeq(s, pos + 1, pos + Len(lit)) = lit

\* (?!lit) at position pos
notAhead(s, pos, lit) == ~literalAt(s, pos, lit)

\* mutant: the pattern without its $
atEndOmitted(s, pos) == TRUE

\* $ without the m flag: only at the end of the input
atEnd(s, pos) == pos = Len(s)

\* RegExp.prototype.test: ^ lets the match start at position 0 only, and
\* every quantifier has a fixed count, so there is one way to match
ssnTest(s) ==
  /\ notAhead(s, 0, "000") /\ digitsAt(s, 0, 3)
  /\ literalAt(s, 3, "-")
  /\ notAhead(s, 4, "00") /\ digitsAt(s, 4, 2)
  /\ literalAt(s, 6, "-")
  /\ notAhead(s, 7, "0000") /\ digitsAt(s, 7, 4)
  /\ atEnd(s, 11)

\* the strings of the test of getRegexForSSN
SsnTestStrings ==
  {"123-45-6789", "234-56-2349", "875-43-0298", "034-01-0008",
   "123456789", "000-56-2349", "875-00-0298", "034-01-0000", "0S4-H1-HACK"}

\* strings of the form XXX-XX-XXXX
SsnShaped ==
  {g1 \o "-" \o g2 \o "-" \o g3 :
     g1 \in {"000", "034", "123"}, g2 \in {"00", "45"}, g3 \in {"0000", "0008", "6789"}}

EditChars == {"0", "-", "S"}

\* s with one character inserted, replaced or deleted
OneEdit(s) ==
  {SubSeq(s, 1, k - 1) \o ch \o SubSeq(s, k, Len(s)) :
     k \in 1..(Len(s) + 1), ch \in EditChars}
  \cup {SubSeq(s, 1, k - 1) \o ch \o SubSeq(s, k + 1, Len(s)) :
          k \in 1..Len(s), ch \in EditChars}
  \cup {SubSeq(s, 1, k - 1) \o SubSeq(s, k + 1, Len(s)) : k \in 1..Len(s)}

RECURSIVE Edited(_, _)
Edited(S, n) ==
  IF n = 0 THEN S ELSE Edited(S \cup UNION {OneEdit(s) : s \in S}, n - 1)

SsnInit ==
  /\ str \in Edited(SsnTestStrings \cup SsnShaped, MaxEdits)
  /\ matched = FALSE
  /\ tpc = "idle"

SsnIdle ==
  /\ str = "" /\ matched = FALSE /\ tpc = "done"

\* getRegexForSSN().test(str)
SsnTest ==
  /\ tpc = "idle"
  /\ matched' = ssnTest(str)
  /\ tpc' = "done"
  /\ UNCHANGED <<str, pokerVars, concVars, permVars,
                 stockVars, mergeVars, wrapVars, rangeVars>>

---------------------------------------------------------------------------
(* Specifications *)

\* one call of getPokerHandRank
Init ==
  /\ PokerInit /\ ConcIdle /\ PermIdle
  /\ StockIdle /\ MergeIdle /\ WrapIdle /\ RangesIdle /\ SsnIdle
Next == Call
Spec == Init /\ [][Next]_vars

\* NumCallers invocations of getPokerHandRank, their steps in any order
InitConcurrent ==
  /\ PokerIdle /\ ConcInit /\ PermIdle
  /\ StockIdle /\ MergeIdle /\ WrapIdle /\ RangesIdle /\ SsnIdle
SpecConcurrent == InitConcurrent /\ [][ConcNext]_vars

\* one run of getPermutations, consumed to its end (Array.from, for-of)
InitPermutations ==
  /\ PokerIdle /\ ConcIdle /\ PermInit
  /\ StockIdle /\ MergeIdle /\ WrapIdle /\ RangesIdle /\ SsnIdle
SpecPermutations == InitPermutations /\ [][PermNext]_vars /\ WF_vars(PermNext)

\* one call of getMostProfitFromStockQuotes
InitStock ==
  /\ PokerIdle /\ ConcIdle /\ PermIdle
  /\ StockInit /\ MergeIdle /\ WrapIdle /\ RangesIdle /\ SsnIdle
NextStock == StockCall
SpecStock == InitStock /\ [][NextStock]_vars

\* one run of mergeSortedSequences, consumed to its end
InitMerge ==
  /\ PokerIdle /\ ConcIdle /\ PermIdle
  /\ StockIdle /\ MergeInit /\ WrapIdle /\ RangesIdle /\ SsnIdle
SpecMerge == InitMerge /\ [][MergeNext]_vars

\* one run of wrapText, consumed to its end
InitWrap ==
  /\ PokerIdle /\ ConcIdle /\ PermIdle
  /\ StockIdle /\ MergeIdle /\ WrapInit /\ RangesIdle /\ SsnIdle
SpecWrap == InitWrap /\ [][WrapNext]_vars

\* one call of extractRanges
InitRanges ==
  /\ PokerIdle /\ ConcIdle /\ PermIdle
  /\ StockIdle /\ MergeIdle /\ WrapIdle /\ RangesInit /\ SsnIdle
NextRanges == RangesCall
SpecRanges == InitRanges /\ [][NextRanges]_vars

\* one test of a string against getRegexForSSN()
InitSsn ==
  /\ PokerIdle /\ ConcIdle /\ PermIdle
  /\ StockIdle /\ MergeIdle /\ WrapIdle /\ RangesIdle /\ SsnInit
NextSsn == SsnTest
SpecSsn == InitSsn /\ [][NextSsn]_vars

---------------------------------------------------------------------------
(* What the claims speak of, stated on the caller's cards and not through *)
(* the code's parsing, sorting or counting                                *)

RankSet == {ranks[k] : k \in 1..Len(ranks)}
SuitSet == {suits[k] : k \in 1..Len(suits)}

\* 2 lowest (1) ... A highest (13)
RankIndex(r) == CHOOSE k \in 1..Len(ranks) : ranks[k] = r

\* five distinct cards of the standard deck
StandardHand ==
  /\ Len(cards) = 5
  /\ \A k \in 1..5 : cards[k].rank \in RankSet /\ cards[k].suit \in SuitSet
  /\ \A j, k \in 1..5 : j # k => cards[j] # cards[k]

HasBadRank == \E k \in 1..Len(cards) : cards[k].rank \notin RankSet

HandRanks == {cards[k].rank : k \in 1..Len(cards)}
RankCount(r) == Cardinality({k \in 1..Len(cards) : cards[k].rank = r})
NumRanksWithCount(n) == Cardinality({r \in HandRanks : RankCount(r) = n})

AllOneSuit == \A j, k \in 1..Len(cards) : cards[j].suit = cards[k].suit
Wheel == HandRanks = {"A", "2", "3", "4", "5"}
FiveConsecutive ==
  LET idx == {RankIndex(r) : r \in HandRanks}
  IN  /\ Cardinality(idx) = 5
      /\ \E lo \in idx : idx = lo..(lo + 4)
StraightHand == FiveConsecutive \/ Wheel

\* the predicate of each category, by PokerRank number
CategoryHolds(n) ==
  CASE n = 8 -> StraightHand /\ AllOneSuit
    [] n = 7 -> NumRanksWithCount(4) = 1
    [] n = 6 -> NumRanksWithCount(3) = 1 /\ NumRanksWithCount(2) = 1
    [] n = 5 -> AllOneSuit
    [] n = 4 -> StraightHand
    [] n = 3 -> NumRanksWithCount(3) = 1
    [] n = 2 -> NumRanksWithCount(2) = 2
    [] n = 1 -> NumRanksWithCount(2) = 1
    [] n = 0 -> TRUE

\* the first matching rule of the ordered list
FirstMatch ==
  IF StraightHand /\ AllOneSuit THEN PokerRankInit.StraightFlush
  ELSE IF NumRanksWithCount(4) = 1 THEN PokerRankInit.FourOfKind
  ELSE IF NumRanksWithCount(3) = 1 /\ NumRanksWithCount(2) = 1 THEN PokerRankInit.FullHouse
  ELSE IF AllOneSuit THEN PokerRankInit.Flush
  ELSE IF StraightHand THEN PokerRankInit.Straight
  ELSE IF NumRanksWithCount(3) = 1 THEN PokerRankInit.ThreeOfKind
  ELSE IF NumRanksWithCount(2) = 2 THEN PokerRankInit.TwoPairs
  ELSE IF NumRanksWithCount(2) = 1 THEN PokerRankInit.OnePair
  ELSE PokerRankInit.HighCard

Returned == pc = "done" /\ outcome = "returned"

---------------------------------------------------------------------------
(* Claims about one call of getPokerHandRank (specification Spec) *)

\* C1: for every hand of 5 distinct cards of the standard deck the value
\* returned is the category of the first matching rule of the ordered list
\* StraightFlush, FourOfKind, FullHouse, Flush, Straight, ThreeOfKind,
\* TwoPairs, OnePair, HighCard.
C1_FirstMatchingRule ==
  (pc = "done" /\ StandardHand) => (outcome = "returned" /\ result = FirstMatch)

\* a standard hand classified TwoPairs, and one classified FullHouse
C1_Witness ==
  /\ Returned /\ StandardHand
  /\ NumRanksWithCount(2) = 2
  /\ result = PokerRankInit.TwoPairs

\* C2: the category returned for a re-ordered 5-card hand is the category
\* returned for the hand in its original order.
C2_OrderIndependent ==
  (pc = "done" /\ Len(hand) = 5) => result = getPokerHandRank(hand0, PokerRank)

\* a classified hand that was passed in another order than the original,
\* neither of the two orders being the sorted one
C2_Witness ==
  /\ Returned /\ Len(hand) = 5
  /\ hand # hand0
  /\ hand # sortedHand(hand)
  /\ hand0 # sortedHand(hand0)
  /\ result = PokerRankInit.Straight

\* C3: when several category predicates hold of a hand, the value returned
\* is the largest PokerRank number among them: straight and flush give
\* StraightFlush (never Flush or Straight), three of a kind with a separate
\* pair gives FullHouse (never ThreeOfKind or OnePair).
C3_HighestPrecedence ==
  (pc = "done" /\ StandardHand) =>
     /\ CategoryHolds(result)
     /\ \A n \in 0..8 : CategoryHolds(n) => n <= result
     /\ (StraightHand /\ AllOneSuit) => result = PokerRankInit.StraightFlush
     /\ (NumRanksWithCount(3) >= 1 /\ NumRanksWithCount(2) >= 1) =>
           result = PokerRankInit.FullHouse

\* a full house: the ThreeOfKind and OnePair predicates hold as well
C3_Witness ==
  /\ Returned /\ StandardHand
  /\ CategoryHolds(6) /\ CategoryHolds(3) /\ CategoryHolds(1)
  /\ result = PokerRankInit.FullHouse

\* C4: the straight test is true exactly when the five rank indices are
\* five consecutive integers or the ranks are {A,2,3,4,5}; the wheel is
\* classified Straight (StraightFlush in one suit), and a hand holding
\* K, A and 2 (a wrap-around) is not a straight.
C4_StraightTest ==
  (pc = "done" /\ StandardHand) =>
     /\ isStraight(rankArrayOf(sortedHand(hand))) <=> (FiveConsecutive \/ Wheel)
     /\ Wheel => result = (IF AllOneSuit THEN PokerRankInit.StraightFlush
                                         ELSE PokerRankInit.Straight)
     /\ ({"K", "A", "2"} \subseteq HandRanks) =>
           /\ ~isStraight(rankArrayOf(sortedHand(hand)))
           /\ result \notin {PokerRankInit.Straight, PokerRankInit.StraightFlush}

\* the wheel in mixed suits, classified Straight
C4_Witness ==
  /\ Returned /\ StandardHand
  /\ Wheel /\ ~AllOneSuit
  /\ result = PokerRankInit.Straight

\* C5 as stated: a hand with a rank substring that is none of the 13 ranks
\* fails with MalformedCardError and no category is returned.
C5_MalformedCardError ==
  (pc = "done" /\ HasBadRank) => (outcome = "MalformedCardError" /\ result = -1)

\* the cards of the hand whose rank is one of the 13
GoodCards == SelectSeq(cards, LAMBDA cd : cd.rank \in RankSet)

\* C5 as amended: such a hand raises no error; the tokens with an unknown
\* rank are left out of sortedHand and the category of the remaining cards
\* is returned.
C5_BadRankDropped ==
  (pc = "done" /\ HasBadRank) =>
     /\ outcome = "returned"
     /\ result = getPokerHandRank(Tokens(GoodCards), PokerRank)

\* two tokens of rank "1" in a hand whose other three cards make no pair
C5_Witness ==
  /\ Returned /\ Len(cards) = 5
  /\ RankCount("1") = 2
  /\ result = PokerRankInit.HighCard

\* C6 as stated: a hand that is not exactly five cards fails with
\* InvalidHandError rather than returning a category.
C6_InvalidHandError ==
  (pc = "done" /\ Len(cards) # 5) => (outcome = "InvalidHandError" /\ result = -1)

\* C6 as amended: a hand that is not exactly five cards raises no error;
\* one of the nine categories is returned: Straight for the empty hand,
\* and never Flush or StraightFlush for a hand of fewer than five cards.
C6_WrongSizeClassified ==
  (pc = "done" /\ Len(cards) # 5) =>
     /\ outcome = "returned"
     /\ result \in 0..8
     /\ Len(cards) = 0 => result = PokerRankInit.Straight
     /\ Len(cards) < 5 =>
           result \notin {PokerRankInit.Flush, PokerRankInit.StraightFlush}

\* the empty hand, classified Straight
C6_Witness ==
  /\ Returned /\ Len(cards) = 0
  /\ result = PokerRankInit.Straight

\* C8: after the call the hand array holds the same tokens in the same
\* positions as before it, and the PokerRank constants are unchanged.
C8_ArgumentUnchanged ==
  pc = "done" => (hand = Tokens(cards) /\ PokerRank = PokerRankInit)

\* a call completed on a hand that was not in rank order
C8_Witness ==
  /\ Returned /\ Len(hand) = 5
  /\ hand # sortedHand(hand)

\* C9: splitting a well-formed token into all but its last character and
\* its last character and concatenating the two gives the token back, the
\* rank part is one of the 13 ranks, and the five tokens of a hand give the
\* caller's five (rank, suit) pairs in the original order.
C9_SplitRoundTrip ==
  (pc = "done" /\ StandardHand) =>
     \A k \in 1..5 :
        /\ getRank(hand[k]) \o getSuit(hand[k]) = hand[k]
        /\ getRank(hand[k]) \in RankSet
        /\ Cd(getRank(hand[k]), getSuit(hand[k])) = cards[k]

\* a classified hand holding a card of the two-character rank 10
C9_Witness ==
  /\ Returned /\ StandardHand
  /\ \E k \in 1..5 : cards[k].rank = "10" /\ Len(hand[k]) = 3

\* the sum of the counts of a multiplicity map
RECURSIVE SumOfCounts(_)
SumOfCounts(f) ==
  IF DOMAIN f = {} THEN 0
  ELSE LET key == CHOOSE k \in DOMAIN f : TRUE
       IN  f[key] + SumOfCounts([k \in (DOMAIN f) \ {key} |-> f[k]])

\* C16 as stated: for a hand of 5 distinct cards the rank-multiplicity map
\* countRanks has between 1 and 4 keys and its counts sum to 5.
C16_OneToFourKeys ==
  (pc = "done" /\ StandardHand) =>
     /\ Cardinality(DOMAIN countRanksOf(hand)) \in 1..4
     /\ SumOfCounts(countRanksOf(hand)) = 5

\* C16 as amended: for a hand of 5 distinct cards countRanks has between 2
\* and 5 keys (the ranks of the hand) and its counts sum to 5.
C16_TwoToFiveKeys ==
  (pc = "done" /\ StandardHand) =>
     /\ Cardinality(DOMAIN countRanksOf(hand)) \in 2..5
     /\ DOMAIN countRanksOf(hand) = HandRanks
     /\ SumOfCounts(countRanksOf(hand)) = 5

\* a classified hand of two ranks (four of a kind)
C16_Witness ==
  /\ Returned /\ StandardHand
  /\ Cardinality(DOMAIN countRanksOf(hand)) = 2
  /\ \E r \in HandRanks : countRanksOf(hand)[r] = 4

---------------------------------------------------------------------------
(* Claims about interleaved invocations (specification SpecConcurrent) *)

AfterSort(p) == cpc[p] \in {"split", "count", "decide", "done"}

\* C7: when the steps of several invocations interleave in any order, each
\* invocation returns the category it returns when run alone, and the
\* locals it reads hold what it computed from its own argument.
C7_InterleavingSafe ==
  \A p \in Callers :
     /\ AfterSort(p) => frames[frameOf(p)].sH = sortedHand(args[p])
     /\ cpc[p] = "done" => results[p] = getPokerHandRank(args[p], PokerRank)

\* two invocations on different hands, finished with different categories
\* after their steps interleaved
C7_Witness ==
  /\ interleaved
  /\ \A p \in Callers : cpc[p] = "done"
  /\ \E p, q \in Callers : args[p] # args[q] /\ results[p] # results[q]

---------------------------------------------------------------------------
(* Claims about getPermutations (specification SpecPermutations) *)

RECURSIVE Factorial(_)
Factorial(n) == IF n <= 1 THEN 1 ELSE n * Factorial(n - 1)

CharsOf(s) == {SubSeq(s, k, k) : k \in 1..Len(s)}

\* every arrangement of the characters of the input
Rearrangements ==
  {join([k \in 1..Len(input) |-> SubSeq(input, p[k], p[k])]) :
     p \in Permutations(1..Len(input))}

YieldedAllPermutations ==
  /\ Len(yielded) = Factorial(Len(input))
  /\ \A j, k \in 1..Len(yielded) : j # k => yielded[j] # yielded[k]
  /\ \A k \in 1..Len(yielded) :
        Len(yielded[k]) = Len(input) /\ CharsOf(yielded[k]) = CharsOf(input)
  /\ {yielded[k] : k \in 1..Len(yielded)} = Rearrangements

\* C10: for an input of n >= 1 pairwise different characters the generator
\* terminates, and it has then yielded exactly n! pairwise distinct
\* strings, each a rearrangement of the input: all of its permutations.
C10_AllPermutations ==
  /\ <>(gpc = "done")
  /\ []((gpc = "done" /\ Len(input) >= 1) => YieldedAllPermutations)

\* a finished run on a string of 4 characters: 24 strings yielded
C10_Witness ==
  /\ gpc = "done"
  /\ Len(input) = 4
  /\ Len(yielded) = 24

---------------------------------------------------------------------------
(* Claims about getMostProfitFromStockQuotes (specification SpecStock) *)

SeqMax(q, from) == CHOOSE m \in {q[k] : k \in from..Len(q)} : \A k \in from..Len(q) : q[k] <= m

\* the sum over all days of (the highest quote of that day or later, minus
\* the quote of that day)
RECURSIVE SuffixMaxSum(_, _)
SuffixMaxSum(q, day) ==
  IF day > Len(q) THEN 0
  ELSE (SeqMax(q, day) - q[day]) + SuffixMaxSum(q, day + 1)

SetMax(S) == CHOOSE m \in S : \A x \in S : x <= m

\* the most that can be made from `day` on with `held` units in hand, each
\* day doing nothing, buying one unit, or selling 1..held units
RECURSIVE BestTrade(_, _, _)
BestTrade(q, day, held) ==
  IF day > Len(q) THEN 0
  ELSE SetMax({BestTrade(q, day + 1, held)}
              \cup {BestTrade(q, day + 1, held + 1) - q[day]}
              \cup {k * q[day] + BestTrade(q, day + 1, held - k) : k \in 1..held})

\* C11: for every array of non-negative quotes in date order the value
\* returned is the most that trading can make (buy one unit, sell any number
\* of held units, or do nothing, each day), which is the sum over the days
\* of the highest quote of that day or later minus the quote of that day.
C11_MostProfit ==
  spc = "done" =>
     /\ profit = SuffixMaxSum(quotes0, 1)
     /\ profit = BestTrade(quotes0, 1, 0)

\* a call that returned a profit made of two separate sales
C11_Witness ==
  /\ spc = "done"
  /\ Len(quotes0) = 4
  /\ quotes0[1] < quotes0[2] /\ quotes0[3] < quotes0[2] /\ quotes0[3] < quotes0[4]
  /\ profit = (quotes0[2] - quotes0[1]) + (quotes0[4] - quotes0[3])

---------------------------------------------------------------------------
(* Claims about mergeSortedSequences (specification SpecMerge) *)

\* C12: for every pair of sorted sources the sequence yielded is sorted:
\* every value yielded is greater than or equal to the one yielded before it.
C12_MergedSorted ==
  \A k \in 1..(Len(merged) - 1) : merged[k] <= merged[k + 1]

---------------------------------------------------------------------------
(* Claims about wrapText (specification SpecWrap) *)

HasSpace(s) == \E k \in 1..Len(s) : SubSeq(s, k, k) = " "

\* C13 as stated: no line yielded is longer than columns characters.
C13_NoLineTooLong ==
  \A k \in 1..Len(lines) : Len(lines[k]) <= columns

\* C13 as amended: no line yielded is longer than columns characters,
\* unless the line is a single word that is itself longer than columns.
C13_OnlyWordsTooLong ==
  \A k \in 1..Len(lines) : Len(lines[k]) <= columns \/ ~HasSpace(lines[k])

\* a text wrapped into two lines, the first of two words and exactly
\* columns characters long
C13_Witness ==
  /\ wpc = "done"
  /\ Len(lines) = 2
  /\ HasSpace(lines[1]) /\ Len(lines[1]) = columns
  /\ Len(lines[2]) >= 1

---------------------------------------------------------------------------
(* Claims about extractRanges (specification SpecRanges) *)

\* the positions at which a maximal run of consecutive integers starts
RunStarts(ns) == {k \in 1..Len(ns) : k = 1 \/ ns[k] # ns[k - 1] + 1}

\* the last position of the maximal run that starts at position k
RunEnd(ns, k) ==
  CHOOSE e \in k..Len(ns) :
    /\ \A m \in (k + 1)..e : ns[m] = ns[m - 1] + 1
    /\ e = Len(ns) \/ ns[e + 1] # ns[e] + 1

\* a run written as the format asks: first-last when it has more than two
\* values, its values one by one otherwise
RunString(ns, k) ==
  LET e == RunEnd(ns, k)
  IN  IF e - k + 1 > 2 THEN toString(ns[k]) \o "-" \o toString(ns[e])
      ELSE joinWith([m \in 1..(e - k + 1) |-> toString(ns[k + m - 1])], ",")

ExpectedRanges(ns) ==
  LET starts == Ordered(RunStarts(ns))
  IN  joinWith([j \in 1..Len(starts) |-> RunString(ns, starts[j])], ",")

\* C14: for every strictly increasing list of integers, negative ones
\* included, the string returned writes every maximal run of consecutive
\* integers of more than two values as first-last and every other value on
\* its own, separated by commas (so that expanding it gives the list back).
C14_RangesOfRuns ==
  rpc = "done" => ranges = ExpectedRanges(nums)

---------------------------------------------------------------------------
(* Claims about getRegexForSSN (specification SpecSsn) *)

CharAt(s, k) == SubSeq(s, k, k)

\* the whole string has the form XXX-XX-XXXX, every X a decimal digit
SsnForm(s) ==
  /\ Len(s) = 11
  /\ \A k \in 1..11 :
        IF k \in {4, 7} THEN CharAt(s, k) = "-"
        ELSE CharAt(s, k) \in {"0", "1", "2", "3", "4", "5", "6", "7", "8", "9"}

AllZeros(s, from, to) == \A k \in from..to : CharAt(s, k) = "0"

\* C15: the regular expression matches a string exactly when the whole
\* string has the form XXX-XX-XXXX with every X a decimal digit and none
\* of the three digit groups made of zeros only.
C15_MatchesValidSSN ==
  tpc = "done" =>
     (matched <=> /\ SsnForm(str)
                  /\ ~AllZeros(str, 1, 3)
                  /\ ~AllZeros(str, 5, 6)
                  /\ ~AllZeros(str, 8, 11))

\* a matched string whose groups hold zeros without being all zeros
C15_Witness ==
  /\ tpc = "done"
  /\ matched
  /\ str = "034-01-0008"

=============================================================================
